---------------------------- MODULE Spec2Model ----------------------------
(***************************************************************************)
(* Model of tornado's C extensions:                                        *)
(*   _websocket_unmask.c  Module_unmask_frame (word-at-a-time unmasking)   *)
(*   speedups.c           websocket_mask      (byte-wise masking)          *)
(*   epoll.c              _epoll_create / _epoll_ctl / _epoll_wait         *)
(*                                                                         *)
(* Bytes are naturals 0..255.  A C `unsigned int' is kept as its four      *)
(* base-256 digits, least significant first, so that the 32-bit width and  *)
(* the host byte order of a word load/store are explicit.                  *)
(***************************************************************************)
EXTENDS Integers, Sequences, FiniteSets, TLC

VARIABLES
    \* ---- masking engines ----
    host,        \* the build: byte order and whether misaligned word access traps
    mask_str,    \* the mask argument (a byte string of any length)
    input,       \* the data argument
    input_addr,  \* address of the data buffer, modulo the word size
    mpc,         \* position of the masking test driver
    unmasked,    \* result of unmask_frame(input, mask_str)
    unmasked2,   \* result of unmask_frame(unmasked.out, mask_str)
    masked,      \* result of websocket_mask(mask_str, input)
    masked2,     \* result of websocket_mask(mask_str, masked.out)
    \* ---- readiness poller ----
    epstate,     \* "unopened" | "open" | "closed": the kernel table behind the handle
    table,       \* kernel interest list: set of [fd, events, data]
    cond,        \* per descriptor: the I/O conditions currently true (environment)
    rdllist,     \* kernel ready list: sequence of descriptors, head is served first
    last,        \* the last wrapper call: operation, arguments, outcome
    deferred,    \* descriptors ready at the last wait but left out of its batch
    served,      \* descriptors deferred by the previous wait and returned by the last
    removed,     \* descriptors deleted from the table and not added again
    \* ---- interpreter lock around epoll_wait ----
    gil,         \* the set of threads holding the interpreter lock
    wpc,         \* position of the waiting thread inside _epoll_wait
    wlocals,     \* the waiter's locals: timeout, num_events, events, errno
    work         \* per other thread: steps of work done since the waiter released the lock

maskVars == <<host, mask_str, input, input_addr, mpc, unmasked, unmasked2, masked, masked2>>
pollVars == <<epstate, table, cond, rdllist, last, deferred, served, removed>>
gilVars  == <<gil, wpc, wlocals, work>>
vars     == <<maskVars, pollVars, gilVars>>

--------------------------------------------------------------------------
(* Bounds of the model *)

\* longest data buffer drawn
MaxLen == 8
\* largest start address (mod word size) of the data buffer
MaxOffset == 1
\* descriptors 1..NumFds exist in the poller specification
NumFds == 2
\* descriptors 1..BatchFds are registered and ready in the batch specification
BatchFds == 26
\* threads 1..NumOthers run beside the waiting thread
NumOthers == 2
\* work steps counted per thread
MaxWork == 2

--------------------------------------------------------------------------
(* Bytes, words, XOR *)

\* sizeof(unsigned int) on the supported ABIs; also its alignment requirement
WordSize == 4

RECURSIVE BitXor(_, _, _)
\* a ^ b on w-bit unsigned values
BitXor(a, b, w) ==
    IF w = 0 THEN 0
    ELSE ((a + b) % 2) + 2 * BitXor(a \div 2, b \div 2, w - 1)

\* a ^ b on unsigned char
Xor8(a, b) == BitXor(a, b, 8)

\* a ^ b on unsigned int, digit-wise on the base-256 digits
XorWord(w, m) == [k \in 1..WordSize |-> Xor8(w[k], m[k])]

\* mask_str[3] << 24 | mask_str[2] << 16 | mask_str[1] << 8 | mask_str[0]:
\* digit k (least significant first) of the value is mask_str[k-1] (C index)
MaskWord(m) == [k \in 1..WordSize |-> m[k]]

\* *input_multi: the unsigned int read from the 4 bytes at C offset off.
\* A little-endian host reads the first byte as the least significant digit,
\* a big-endian host as the most significant one.
LoadWord(buf, off, endian) ==
    IF endian = "little"
    THEN [k \in 1..WordSize |-> buf[off + k]]
    ELSE [k \in 1..WordSize |-> buf[off + WordSize + 1 - k]]

\* *output_multi = w: the 4 bytes the host writes for the unsigned int w
StoreWord(w, endian) ==
    IF endian = "little"
    THEN [k \in 1..WordSize |-> w[k]]
    ELSE [k \in 1..WordSize |-> w[WordSize + 1 - k]]

--------------------------------------------------------------------------
(* _websocket_unmask.c *)

NoResult == [status |-> "none"]

RECURSIVE WordLoop(_, _, _, _, _)
\* for (i=0; i<input_length/4; i++) *output_multi++ = *input_multi++ ^ mask;
WordLoop(in, mask, endian, i, out) ==
    IF i < Len(in) \div WordSize
    THEN WordLoop(in, mask, endian, i + 1,
                  out \o StoreWord(XorWord(LoadWord(in, WordSize * i, endian), mask), endian))
    ELSE out

RECURSIVE ByteLoop(_, _, _, _, _)
\* while (i--) *output++ = *input++ ^ *mask_str++;
\* done counts the bytes already processed by this loop, i those still to do
ByteLoop(in, m, i, done, out) ==
    IF i # 0
    THEN ByteLoop(in, m, i - 1, done + 1,
                  out \o <<Xor8(in[Len(out) + 1], m[done + 1])>>)
    ELSE out

\* addresses of the unsigned int reads the word loop makes through
\* input_multi, for a data buffer that starts at address addr
WideReads(addr, n) ==
    IF n >= WordSize THEN {addr + WordSize * i : i \in 0..((n \div WordSize) - 1)} ELSE {}

\* the output buffer is a fresh string object: its bytes start word-aligned
OutputAddr == 0

WideWrites(n) ==
    IF n >= WordSize THEN {OutputAddr + WordSize * i : i \in 0..((n \div WordSize) - 1)} ELSE {}

Misaligned(addrs) == \E a \in addrs : a % WordSize # 0

\* the body after the argument checks: allocate the output, word loop, byte loop
UnmaskBody(in, addr, m, h) ==
    IF h.strict /\ Misaligned(WideReads(addr, Len(in)) \cup WideWrites(Len(in)))
    THEN \* dereferencing a misaligned unsigned int* is undefined; a
         \* strict-alignment host delivers SIGBUS and nothing is returned
         [status |-> "SIGBUS", out |-> <<>>,
          wide |-> WideReads(addr, Len(in)) \cup WideWrites(Len(in))]
    ELSE LET words == IF Len(in) >= 4
                      THEN WordLoop(in, MaskWord(m), h.endian, 0, <<>>)
                      ELSE <<>>
             i     == Len(in) % 4      \* input_length & 3
         IN  [status |-> "ok",
              out |-> IF i # 0 THEN ByteLoop(in, m, i, 0, words) ELSE words,
              wide |-> WideReads(addr, Len(in)) \cup WideWrites(Len(in))]

\* PyErr_Format(PyExc_TypeError, "the mask must be a string of length 4, not %d", mask_length)
MaskLengthError(n) ==
    [status |-> "TypeError",
     msg |-> <<"the mask must be a string of length 4, not %d", n>>,
     out |-> <<>>, wide |-> {}]

\* the empty string / empty bytearray returned for empty input
EmptyOutput == [status |-> "ok", out |-> <<>>, wide |-> {}]

\* variant with the empty-input shortcut taken before the mask-length check
Module_unmask_frame_ShortcutFirst(in, addr, m, h) ==
    IF Len(in) = 0 THEN EmptyOutput
    ELSE IF Len(m) # 4 THEN MaskLengthError(Len(m))
    ELSE UnmaskBody(in, addr, m, h)

\* Module_unmask_frame(input, mask): the result the caller sees on host h when
\* the data buffer starts at address addr
Module_unmask_frame(in, addr, m, h) ==
    IF Len(m) # 4 THEN MaskLengthError(Len(m))
    ELSE IF Len(in) = 0 THEN EmptyOutput
    ELSE UnmaskBody(in, addr, m, h)

--------------------------------------------------------------------------
(* speedups.c *)

\* mask[i % 4] for C index i; reading past a mask shorter than 4 bytes yields
\* whatever byte lies there (junk)
MaskByte(m, i, junk) == IF (i % 4) + 1 <= Len(m) THEN m[(i % 4) + 1] ELSE junk

\* websocket_mask(mask, data): for (i = 0; i < data_len; i++) buf[i] = data[i] ^ mask[i % 4]
websocket_mask(m, d, junk) ==
    [status |-> "ok", out |-> [k \in 1..Len(d) |-> Xor8(d[k], MaskByte(m, k - 1, junk))]]

--------------------------------------------------------------------------
(* Inputs of the masking engines *)

\* the builds the extension is compiled for
Hosts == [endian : {"little", "big"}, strict : BOOLEAN]

\* masks drawn: the RFC 6455 example, one with high bits set, the zero mask,
\* and masks of length 0, 3 and 5
Masks == { <<18, 52, 86, 120>>, <<255, 0, 129, 1>>, <<0, 0, 0, 0>>,
           <<>>, <<18, 52, 86>>, <<18, 52, 86, 120, 154>> }

\* byte values the data buffers are built from
DataBytes == {0, 165}

\* value of a byte read past the end of a short mask
JunkBytes == {0, 255}

RECURSIVE SeqsUpTo(_, _)
\* all sequences over S of length 0..n
SeqsUpTo(S, n) ==
    IF n = 0 THEN {<<>>}
    ELSE LET shorter == SeqsUpTo(S, n - 1)
         IN  shorter \cup {Append(s, b) : s \in {t \in shorter : Len(t) = n - 1}, b \in S}

Buffers == SeqsUpTo(DataBytes, MaxLen)

\* the byte-wise definition of RFC 6455 section 5.3: out[i] = d[i] XOR m[i mod 4]
ByteWise(m, d) == [k \in 1..Len(d) |-> Xor8(d[k], m[((k - 1) % 4) + 1])]

--------------------------------------------------------------------------
(* Poller and lock state; given in full further down. *)

\* the interpreter lock is a set of holders: empty when free
NoThread == {}

PollIdle ==
    /\ epstate = "unopened" /\ table = {} /\ cond = <<>> /\ rdllist = <<>>
    /\ last = [op |-> "none"] /\ deferred = {} /\ served = {} /\ removed = {}

NoLocals == [timeout |-> 0, num_events |-> 0, events |-> <<>>, errno |-> "none"]

GilIdle == gil = NoThread /\ wpc = "idle" /\ wlocals = NoLocals /\ work = <<>>

MaskIdle ==
    /\ host = [endian |-> "little", strict |-> FALSE]
    /\ mask_str = <<>> /\ input = <<>> /\ input_addr = 0 /\ mpc = "unused"
    /\ unmasked = NoResult /\ unmasked2 = NoResult
    /\ masked = NoResult /\ masked2 = NoResult

--------------------------------------------------------------------------
(* Specification of the masking engines: each call is one step *)

MaskInit ==
    /\ host \in Hosts
    /\ mask_str \in Masks
    /\ input \in Buffers
    /\ input_addr \in 0..MaxOffset
    /\ mpc = "start"
    /\ unmasked = NoResult /\ unmasked2 = NoResult
    /\ masked = NoResult /\ masked2 = NoResult
    /\ PollIdle /\ GilIdle

\* unmask_frame(input, mask_str)
CallUnmask ==
    /\ mpc = "start"
    /\ unmasked' = Module_unmask_frame(input, input_addr, mask_str, host)
    /\ mpc' = IF unmasked'.status = "SIGBUS" THEN "killed" ELSE "unmasked"
    /\ UNCHANGED <<host, mask_str, input, input_addr, unmasked2, masked, masked2>>
    /\ UNCHANGED <<pollVars, gilVars>>

\* unmask_frame(result of the first call, mask_str); the argument is the
\* string object the first call returned, whose bytes start word-aligned
CallUnmaskAgain ==
    /\ mpc = "unmasked" /\ unmasked.status = "ok"
    /\ unmasked2' = Module_unmask_frame(unmasked.out, OutputAddr, mask_str, host)
    /\ mpc' = "unmasked2"
    /\ UNCHANGED <<host, mask_str, input, input_addr, unmasked, masked, masked2>>
    /\ UNCHANGED <<pollVars, gilVars>>

\* websocket_mask(mask_str, input)
CallMask ==
    /\ mpc = "start"
    /\ \E junk \in JunkBytes : masked' = websocket_mask(mask_str, input, junk)
    /\ mpc' = "masked"
    /\ UNCHANGED <<host, mask_str, input, input_addr, unmasked, unmasked2, masked2>>
    /\ UNCHANGED <<pollVars, gilVars>>

\* websocket_mask(mask_str, result of the first call)
CallMaskAgain ==
    /\ mpc = "masked"
    /\ \E junk \in JunkBytes : masked2' = websocket_mask(mask_str, masked.out, junk)
    /\ mpc' = "masked2"
    /\ UNCHANGED <<host, mask_str, input, input_addr, unmasked, unmasked2, masked>>
    /\ UNCHANGED <<pollVars, gilVars>>

MaskNext == CallUnmask \/ CallUnmaskAgain \/ CallMask \/ CallMaskAgain

SpecMask == MaskInit /\ [][MaskNext]_vars

--------------------------------------------------------------------------
(* epoll.c: the kernel facility the wrappers delegate to *)

\* capacity of the events array handed to the kernel wait
MAX_EVENTS == 24

\* condition of a descriptor that is not open
Closed == {"NVAL"}

\* event bits: readable, writable; "ET" is the edge-triggered flag
Conds == {"IN", "OUT"}

Registered(tbl) == {e.fd : e \in tbl}

Entry(tbl, fd) == CHOOSE e \in tbl : e.fd = fd

\* conditions of fd that the kernel reports for interest set ev
Revents(cnd, fd, ev) == IF cnd[fd] = Closed THEN {} ELSE cnd[fd] \cap ev

\* registered descriptors that have a requested condition
Ready(tbl, cnd) == {e.fd : e \in {x \in tbl : Revents(cnd, x.fd, x.events) # {}}}

InList(list, fd) == \E i \in 1..Len(list) : list[i] = fd

Without(list, fd) == SelectSeq(list, LAMBDA x : x # fd)

\* the kernel links a registered descriptor onto the ready list when it has
\* a requested condition and is not linked yet
Link(list, cnd, fd, ev) ==
    IF Revents(cnd, fd, ev) # {} /\ ~InList(list, fd) THEN Append(list, fd) ELSE list

\* epoll_create(size): a new table, or -1 with errno when none can be allocated
epoll_create(exhausted) ==
    IF exhausted THEN [ret |-> -1, errno |-> "EMFILE"] ELSE [ret |-> 0, errno |-> "none"]

\* epoll_ctl(epfd, op, fd, &event) on table state st with interest list tbl
epoll_ctl(st, tbl, list, cnd, op, fd, event) ==
    LET fail(e) == [ret |-> -1, errno |-> e, table |-> tbl, rdllist |-> list]
        new     == [fd |-> fd, events |-> event.events, data |-> event.data]
    IN  IF st # "open" THEN fail("EBADF")
        ELSE IF fd \notin DOMAIN cnd \/ cnd[fd] = Closed THEN fail("EBADF")
        ELSE IF op = "ADD"
        THEN IF fd \in Registered(tbl) THEN fail("EEXIST")
             ELSE [ret |-> 0, errno |-> "none", table |-> tbl \cup {new},
                   rdllist |-> Link(list, cnd, fd, event.events)]
        ELSE IF op = "MOD"
        THEN IF fd \notin Registered(tbl) THEN fail("ENOENT")
             ELSE [ret |-> 0, errno |-> "none",
                   table |-> (tbl \ {Entry(tbl, fd)}) \cup {new},
                   rdllist |-> Link(list, cnd, fd, event.events)]
        ELSE IF op = "DEL"
        THEN IF fd \notin Registered(tbl) THEN fail("ENOENT")
             ELSE [ret |-> 0, errno |-> "none",
                   table |-> tbl \ {Entry(tbl, fd)},
                   rdllist |-> Without(list, fd)]
        ELSE fail("EINVAL")

\* the kernel's transfer of the ready list into the caller's array: items are
\* taken from the head until maxevents are stored; an item with no requested
\* condition left is unlinked and not counted; a level-triggered item that was
\* reported is linked again at the tail; what was not reached stays at the head
ScanReady(list, tbl, cnd, maxevents) ==
    LET scan(live) ==
            LET n     == IF Len(live) <= maxevents THEN Len(live) ELSE maxevents
                \* the scan stops once maxevents items are stored (an item is linked once)
                stop  == IF Len(live) >= maxevents
                         THEN CHOOSE i \in 1..Len(list) : list[i] = live[maxevents]
                         ELSE Len(list)
                item(fd) == CHOOSE e \in tbl : e.fd = fd
                report(e) == [events |-> Revents(cnd, e.fd, e.events), data |-> e.data]
            IN  [events  |-> [k \in 1..n |-> report(item(live[k]))] \o <<>>,
                 rdllist |-> SubSeq(list, stop + 1, Len(list))
                             \o SelectSeq(SubSeq(live, 1, n),
                                          LAMBDA fd : "ET" \notin item(fd).events)]
    IN  CHOOSE r \in UNION {{scan(live) : live \in {SelectSeq(list, LAMBDA fd : fd \in ready)}}
                             : ready \in {Ready(tbl, cnd) \cup {}}} : TRUE

\* epoll_wait(epfd, events, maxevents, timeout): the outcomes the call can
\* return with.  With nothing ready it returns 0 once a timeout >= 0 has
\* elapsed, or -1/EINTR if a signal arrives while it sleeps (timeout # 0);
\* with timeout -1 and nothing ready it stays blocked (no outcome).
epoll_wait(st, tbl, list, cnd, maxevents, timeout) ==
    LET outcomes(scan) ==
            IF scan.events # <<>>
            THEN {[ret |-> Len(scan.events), errno |-> "none",
                   events |-> scan.events, rdllist |-> scan.rdllist]}
            ELSE {[ret |-> 0, errno |-> "none", events |-> <<>>,
                   rdllist |-> scan.rdllist] : x \in {t \in {timeout} : t >= 0}}
                 \cup
                 {[ret |-> -1, errno |-> "EINTR", events |-> <<>>,
                   rdllist |-> scan.rdllist] : x \in {t \in {timeout} : t # 0}}
    IN  IF st # "open"
        THEN {[ret |-> -1, errno |-> "EBADF", events |-> <<>>, rdllist |-> list]}
        ELSE UNION {outcomes(scan) : scan \in {ScanReady(list, tbl, cnd, maxevents)}}

--------------------------------------------------------------------------
(* epoll.c: the wrappers *)

\* _epoll_create: the handle, or an exception carrying errno
_epoll_create(kr) ==
    IF kr.ret = -1 THEN [status |-> "Exception", errno |-> kr.errno]
    ELSE [status |-> "int", value |-> kr.ret]

\* variant that leaves event.data zeroed by the memset
EventFor_NoData(fd, events) == [events |-> events, data |-> 0]

\* memset(&event, 0, sizeof(event)); event.events = events; event.data.fd = fd;
EventFor(fd, events) == [events |-> events, data |-> fd]

\* variant that turns an "add" of a registered descriptor into a "modify"
_epoll_ctl_Coerced(st, tbl, list, cnd, op, fd, events) ==
    LET op2 == IF op = "ADD" /\ fd \in Registered(tbl) THEN "MOD" ELSE op
        kr  == epoll_ctl(st, tbl, list, cnd, op2, fd, EventFor(fd, events))
    IN  [result |-> IF kr.ret = -1 THEN [status |-> "OSError", errno |-> kr.errno]
                    ELSE [status |-> "None"],
         table |-> kr.table, rdllist |-> kr.rdllist]

\* _epoll_ctl(epfd, op, fd, events): None, or OSError carrying errno
_epoll_ctl(st, tbl, list, cnd, op, fd, events) ==
    LET kr == epoll_ctl(st, tbl, list, cnd, op, fd, EventFor(fd, events))
    IN  [result |-> IF kr.ret = -1 THEN [status |-> "OSError", errno |-> kr.errno]
                    ELSE [status |-> "None"],
         table |-> kr.table, rdllist |-> kr.rdllist]

\* variant handing the kernel a capacity larger than the events array
KernelWait_Oversized(st, tbl, list, cnd, timeout) ==
    epoll_wait(st, tbl, list, cnd, MAX_EVENTS + 2, timeout)

\* num_events = epoll_wait(epfd, events, MAX_EVENTS, timeout)
KernelWait(st, tbl, list, cnd, timeout) ==
    epoll_wait(st, tbl, list, cnd, MAX_EVENTS, timeout)

\* the list of (events[i].data.fd, events[i].events) tuples, i < n
Tuples(events, n) == [i \in 1..n |-> <<events[i].data, events[i].events>>] \o <<>>

\* variant following the comment above _epoll_wait: None when the call times out
BuildResult_NoneOnTimeout(kr) ==
    IF kr.ret = -1 THEN [status |-> "Exception", errno |-> kr.errno]
    ELSE IF kr.ret = 0 THEN [status |-> "None"]
    ELSE [status |-> "list", list |-> Tuples(kr.events, kr.ret)]

\* variant that does not test num_events == -1 before building the list
BuildResult_ErrorIgnored(kr) ==
    IF kr.ret = -1 THEN [status |-> "list", list |-> <<>>]
    ELSE [status |-> "list", list |-> Tuples(kr.events, kr.ret)]

\* _epoll_wait after the kernel call: an exception carrying errno when it
\* returned -1, otherwise the list of num_events tuples
BuildResult(kr) ==
    IF kr.ret = -1 THEN [status |-> "Exception", errno |-> kr.errno]
    ELSE [status |-> "list", list |-> Tuples(kr.events, kr.ret)]

\* _epoll_wait as one call: every (kernel outcome, result) pair
_epoll_wait(st, tbl, list, cnd, timeout) ==
    {[kr |-> kr, result |-> BuildResult(kr)] : kr \in KernelWait(st, tbl, list, cnd, timeout)}

\* closing the handle (done by the caller with the descriptor _epoll_create
\* returned): releases the table; on a handle that is not open it is an error
os_close(st) ==
    IF st = "open" THEN [state |-> "closed", result |-> [status |-> "None"]]
    ELSE [state |-> st, result |-> [status |-> "OSError", errno |-> "EBADF"]]

--------------------------------------------------------------------------
(* Poller operations as steps *)

\* interest sets and timeouts the caller passes
EventChoices == {{"IN"}, {"OUT", "ET"}}
Timeouts == {-1, 0, 1}
Ops == {"ADD", "MOD", "DEL"}

\* descriptors that are linked on the ready list with a requested condition
Pending(tbl, list, cnd) == {list[i] : i \in 1..Len(list)} \cap Ready(tbl, cnd)

BatchFdsOf(r) == IF r.status = "list" THEN {r.list[i][1] : i \in 1..Len(r.list)} ELSE {}

EpollCreate ==
    /\ epstate = "unopened"
    /\ \E exhausted \in BOOLEAN :
          LET kr == epoll_create(exhausted)
          IN  /\ epstate' = IF kr.ret = -1 THEN "unopened" ELSE "open"
              /\ last' = [op |-> "create", pre |-> epstate, result |-> _epoll_create(kr)]
    /\ UNCHANGED <<table, cond, rdllist, deferred, served, removed>>
    /\ UNCHANGED <<maskVars, gilVars>>

EpollCtl(op, fd, events) ==
    /\ LET r == _epoll_ctl(epstate, table, rdllist, cond, op, fd, events)
       IN  /\ table' = r.table
           /\ rdllist' = r.rdllist
           /\ last' = [op |-> "ctl", kind |-> op, fd |-> fd, events |-> events,
                       pre |-> epstate, was |-> fd \in Registered(table),
                       open |-> (fd \in DOMAIN cond /\ cond[fd] # Closed),
                       result |-> r.result]
           /\ removed' = IF r.result.status # "None" THEN removed
                          ELSE IF op = "DEL" THEN removed \cup {fd}
                          ELSE removed \ {fd}
    /\ UNCHANGED <<epstate, cond, deferred, served>>
    /\ UNCHANGED <<maskVars, gilVars>>

\* the state change and the record of one _epoll_wait call, per outcome
WaitSteps(timeout) ==
    {[rdllist  |-> w.kr.rdllist,
      last     |-> [op |-> "wait", timeout |-> timeout, pre |-> epstate,
                    ready |-> Ready(table, cond),
                    kret |-> w.kr.ret, result |-> w.result],
      deferred |-> IF w.kr.ret = -1 THEN deferred
                   ELSE Pending(table, rdllist, cond) \ BatchFdsOf(w.result),
      served   |-> deferred \cap BatchFdsOf(w.result)]
     : w \in _epoll_wait(epstate, table, rdllist, cond, timeout)}

EpollWait(timeout) ==
    /\ \E step \in WaitSteps(timeout) :
          /\ rdllist' = step.rdllist
          /\ last' = step.last
          /\ deferred' = step.deferred
          /\ served' = step.served
    /\ UNCHANGED <<epstate, table, cond, removed>>
    /\ UNCHANGED <<maskVars, gilVars>>

EpollClose ==
    /\ LET c == os_close(epstate)
       IN  /\ epstate' = c.state
           /\ table' = IF epstate = "open" THEN {} ELSE table
           /\ rdllist' = IF epstate = "open" THEN <<>> ELSE rdllist
           /\ last' = [op |-> "close", pre |-> epstate, result |-> c.result]
    /\ UNCHANGED <<cond, deferred, served, removed>>
    /\ UNCHANGED <<maskVars, gilVars>>

\* environment: the conditions of an open descriptor change to c
SetCond(fd, c) ==
    /\ cond[fd] # Closed /\ c # cond[fd]
    /\ cond' = [cond EXCEPT ![fd] = c]
    /\ rdllist' = IF fd \in Registered(table)
                     /\ (c \ cond[fd]) \cap Entry(table, fd).events # {}
                  THEN Link(rdllist, cond', fd, Entry(table, fd).events)
                  ELSE rdllist
    /\ last' = [op |-> "none"]
    /\ UNCHANGED <<epstate, table, deferred, served, removed>>
    /\ UNCHANGED <<maskVars, gilVars>>

\* environment: the descriptor is closed; the kernel drops its registration
CloseFd(fd) ==
    /\ cond[fd] # Closed
    /\ cond' = [cond EXCEPT ![fd] = Closed]
    /\ table' = {e \in table : e.fd # fd}
    /\ rdllist' = Without(rdllist, fd)
    /\ last' = [op |-> "none"]
    /\ removed' = removed \ {fd}
    /\ UNCHANGED <<epstate, deferred, served>>
    /\ UNCHANGED <<maskVars, gilVars>>

\* environment: the descriptor number is opened again
OpenFd(fd) ==
    /\ cond[fd] = Closed
    /\ cond' = [cond EXCEPT ![fd] = {}]
    /\ last' = [op |-> "none"]
    /\ UNCHANGED <<epstate, table, rdllist, deferred, served, removed>>
    /\ UNCHANGED <<maskVars, gilVars>>

--------------------------------------------------------------------------
(* Specification of the poller: a handle, NumFds descriptors *)

PollInit ==
    /\ epstate = "unopened" /\ table = {}
    /\ cond = [fd \in 1..NumFds |-> {}] \o <<>>
    /\ rdllist = <<>>
    /\ last = [op |-> "none"] /\ deferred = {} /\ served = {} /\ removed = {}
    /\ MaskIdle /\ GilIdle

PollCtl == \E op \in Ops, fd \in 1..NumFds, ev \in EventChoices : EpollCtl(op, fd, ev)
PollWait == \E t \in Timeouts : EpollWait(t)
PollSetCond == \E fd \in 1..NumFds, c \in SUBSET Conds : SetCond(fd, c)
PollCloseFd == \E fd \in 1..NumFds : CloseFd(fd)
PollOpenFd == \E fd \in 1..NumFds : OpenFd(fd)

PollNext ==
    \/ EpollCreate \/ PollCtl \/ PollWait \/ EpollClose
    \/ PollSetCond \/ PollCloseFd \/ PollOpenFd

SpecPoll == PollInit /\ [][PollNext]_vars

--------------------------------------------------------------------------
(* Specification of the batch capacity: BatchFds descriptors are registered *)
(* for "IN" and all readable, in the order 1..BatchFds; descriptor 1        *)
(* changes readiness and registration while the caller keeps waiting        *)

\* the descriptors whose readiness and registration change
FlapFds == {1}

BatchInit ==
    /\ epstate = "open"
    /\ table = {[fd |-> f, events |-> {"IN"}, data |-> f] : f \in 1..BatchFds} \cup {}
    /\ cond = [f \in 1..BatchFds |-> {"IN"}] \o <<>>
    /\ rdllist = [i \in 1..BatchFds |-> i] \o <<>>
    /\ last = [op |-> "none"] /\ deferred = {} /\ served = {} /\ removed = {}
    /\ MaskIdle /\ GilIdle

BatchWait == EpollWait(0)
BatchSetCond == \E fd \in FlapFds, c \in {{}, {"IN"}} : SetCond(fd, c)
BatchCtl == \E fd \in FlapFds : EpollCtl("DEL", fd, {"IN"})

BatchNext == BatchWait \/ BatchSetCond \/ BatchCtl

\* the caller waits repeatedly
SpecBatch == BatchInit /\ [][BatchNext]_vars /\ WF_vars(BatchWait)

--------------------------------------------------------------------------
(* Specification of the interpreter lock around the kernel wait: the steps  *)
(* of _epoll_wait are taken one at a time while other threads run           *)

\* the thread calling _epoll_wait
Waiter == 0
Others == 1..NumOthers

\* variant of Py_BEGIN_ALLOW_THREADS that keeps the lock
BeginAllowThreads_Kept(g) == g

\* Py_BEGIN_ALLOW_THREADS: the calling thread gives up the lock
BeginAllowThreads(g) == g \ {Waiter}

\* Py_END_ALLOW_THREADS: the calling thread takes the lock back
EndAllowThreads(g) == g \cup {Waiter}

GilInit ==
    /\ epstate \in {"open", "closed"}
    /\ table = IF epstate = "open"
               THEN {[fd |-> f, events |-> {"IN"}, data |-> f] : f \in 1..NumFds}
               ELSE {}
    /\ cond = [f \in 1..NumFds |-> {}] \o <<>>
    /\ rdllist = <<>>
    /\ last = [op |-> "none"] /\ deferred = {} /\ served = {} /\ removed = {}
    /\ gil = NoThread /\ wpc = "idle" /\ wlocals = NoLocals
    /\ work = [t \in Others |-> 0] \o <<>>
    /\ MaskIdle

\* the interpreter calls _epoll_wait(epfd, timeout) holding the lock
WaitCall(timeout) ==
    /\ wpc = "idle" /\ gil = NoThread
    /\ gil' = {Waiter}
    /\ wpc' = "parsed"
    /\ wlocals' = [NoLocals EXCEPT !.timeout = timeout]
    /\ UNCHANGED <<work, pollVars, maskVars>>

WaitBeginAllow ==
    /\ wpc = "parsed"
    /\ gil' = BeginAllowThreads(gil)
    /\ wpc' = "kernel"
    /\ work' = [t \in Others |-> 0] \o <<>>
    /\ UNCHANGED <<wlocals, pollVars, maskVars>>

\* the kernel wait returns, after any delay
WaitKernel ==
    /\ wpc = "kernel"
    /\ \E kr \in KernelWait(epstate, table, rdllist, cond, wlocals.timeout) :
          /\ wlocals' = [timeout |-> wlocals.timeout, num_events |-> kr.ret,
                         events |-> kr.events, errno |-> kr.errno]
          /\ rdllist' = kr.rdllist
    /\ wpc' = "woken"
    /\ UNCHANGED <<gil, work, epstate, table, cond, last, deferred, served, removed>>
    /\ UNCHANGED maskVars

\* taking the lock back waits until no thread holds it
WaitEndAllow ==
    /\ wpc = "woken" /\ gil = NoThread
    /\ gil' = EndAllowThreads(gil)
    /\ wpc' = "locked"
    /\ UNCHANGED <<wlocals, work, pollVars, maskVars>>

\* the exception or the list is built and the call returns to the interpreter
WaitReturn ==
    /\ wpc = "locked"
    /\ last' = [op |-> "wait", timeout |-> wlocals.timeout, pre |-> epstate,
                ready |-> Ready(table, cond), kret |-> wlocals.num_events,
                holder |-> gil,
                result |-> BuildResult([ret |-> wlocals.num_events,
                                        errno |-> wlocals.errno,
                                        events |-> wlocals.events])]
    /\ gil' = gil \ {Waiter}
    /\ wpc' = "idle"
    /\ wlocals' = NoLocals
    /\ UNCHANGED <<work, epstate, table, cond, rdllist, deferred, served, removed>>
    /\ UNCHANGED maskVars

\* another thread takes the free lock
GilTake(t) ==
    /\ gil = NoThread
    /\ gil' = {t}
    /\ UNCHANGED <<wpc, wlocals, work, pollVars, maskVars>>

\* a thread holding the lock does a step of work
Work(t) ==
    /\ t \in gil /\ work[t] < MaxWork
    /\ work' = [work EXCEPT ![t] = @ + 1]
    /\ UNCHANGED <<gil, wpc, wlocals, pollVars, maskVars>>

GilDrop(t) ==
    /\ t \in gil
    /\ gil' = gil \ {t}
    /\ UNCHANGED <<wpc, wlocals, work, pollVars, maskVars>>

GilWaitCall == \E timeout \in Timeouts : WaitCall(timeout)
GilTakeAny == \E t \in Others : GilTake(t)
GilWork == \E t \in Others : Work(t)
GilDropAny == \E t \in Others : GilDrop(t)
GilSetCond == \E fd \in 1..NumFds, c \in {{}, {"IN"}} : SetCond(fd, c)

GilNext ==
    \/ GilWaitCall \/ WaitBeginAllow \/ WaitKernel \/ WaitEndAllow \/ WaitReturn
    \/ GilTakeAny \/ GilWork \/ GilDropAny \/ GilSetCond

SpecGil == GilInit /\ [][GilNext]_vars

--------------------------------------------------------------------------
(* Properties of the masking engines, checked under SpecMask *)

\* C1: for a 4-byte mask, unmask_frame succeeds and its output is the
\* byte-wise definition out[i] = d[i] XOR m[i mod 4] (as websocket_mask
\* computes it), of the same length as the data, empty for empty data.
C1_UnmaskIsByteWise ==
    Len(mask_str) = 4 =>
        /\ mpc \in {"unmasked", "unmasked2", "killed"} =>
              /\ unmasked.status = "ok"
              /\ Len(unmasked.out) = Len(input)
              /\ unmasked.out = ByteWise(mask_str, input)
        /\ mpc \in {"masked", "masked2"} =>
              /\ masked.status = "ok"
              /\ masked.out = ByteWise(mask_str, input)

\* C2: masking is an involution for both entry points: once the two calls
\* with the same 4-byte mask have been made, the second result is the data.
C2_Involution ==
    Len(mask_str) = 4 =>
        /\ mpc \in {"unmasked2", "killed"} =>
              unmasked2.status = "ok" /\ unmasked2.out = input
        /\ mpc = "masked2" => masked2.status = "ok" /\ masked2.out = input

\* C3: a mask whose length is not 4 makes unmask_frame fail with the
\* TypeError that names the received length, with no output, whatever the
\* data length (zero included); a mask of length 4 never gives that error.
C3_MaskLengthRejected ==
    unmasked.status # "none" =>
        /\ Len(mask_str) # 4 =>
              /\ unmasked.status = "TypeError"
              /\ unmasked.msg[2] = Len(mask_str)
              /\ unmasked.out = <<>>
        /\ Len(mask_str) = 4 => unmasked.status # "TypeError"

\* the check is made for empty data too
C3_Witness ==
    /\ unmasked.status = "TypeError" /\ unmasked.msg[2] = 3
    /\ Len(input) = 0

\* C9: every 4-byte-wide access unmask_frame makes is at an address that is
\* a multiple of the word size.
C9_WideAccessAligned ==
    unmasked.status # "none" => \A a \in unmasked.wide : a % WordSize = 0

--------------------------------------------------------------------------
(* Properties of the poller, checked under SpecPoll *)

IsPair(p) == Len(p) = 2 /\ p[2] # {} /\ p[2] \subseteq Conds

C5_OneEntry == \A e1 \in table : \A e2 \in table : e1.fd = e2.fd => e1 = e2

C5_Rejected ==
    (last.op = "ctl" /\ last.pre = "open") =>
        /\ (last.kind = "ADD" /\ last.was) =>
              last.result = [status |-> "OSError", errno |-> "EEXIST"]
        /\ (last.kind \in {"MOD", "DEL"} /\ ~last.was) =>
              /\ last.result.status = "OSError"
              /\ last.result.errno = IF last.open THEN "ENOENT" ELSE "EBADF"

C5_Step ==
    last'.op = "ctl" =>
        /\ last'.result.status = "OSError" => table' = table
        /\ last'.result.status = "None" =>
              /\ last'.kind = "ADD" =>
                    /\ last'.fd \notin Registered(table)
                    /\ table' = table \cup {[fd |-> last'.fd, events |-> last'.events,
                                             data |-> last'.fd]}
              /\ last'.kind = "MOD" =>
                    /\ last'.fd \in Registered(table)
                    /\ Registered(table') = Registered(table)
                    /\ Entry(table', last'.fd).events = last'.events
              /\ last'.kind = "DEL" =>
                    /\ last'.fd \in Registered(table)
                    /\ table' = {e \in table : e.fd # last'.fd}

C5_CtlRejections == [](C5_OneEntry /\ C5_Rejected) /\ [][C5_Step]_vars

\* modify of a descriptor that was removed
C5_Witness ==
    /\ last.op = "ctl" /\ last.kind = "MOD" /\ last.fd \in removed
    /\ last.result = [status |-> "OSError", errno |-> "ENOENT"]

\* C6: the handle goes unopened -> open -> closed and closed is terminal;
\* close releases the table; on a closed handle every ctl and wait fails
\* (EBADF) and a second close is reported as an error.
C6_AfterClose ==
    /\ (last.op \in {"ctl", "wait"} /\ last.pre = "closed") =>
          /\ last.result.status \in {"OSError", "Exception"}
          /\ last.result.errno = "EBADF"
    /\ (last.op = "close" /\ last.pre = "closed") => last.result.status = "OSError"
    /\ (last.op = "close" /\ last.pre = "open") =>
          epstate = "closed" /\ table = {} /\ last.result.status = "None"
    /\ epstate = "closed" => table = {} /\ rdllist = <<>>

C6_Order ==
    /\ epstate = "closed" => epstate' = "closed"
    /\ epstate' # epstate =>
          \/ epstate = "unopened" /\ epstate' = "open"
          \/ epstate = "open" /\ epstate' = "closed"

C10_BatchRegistered ==
    /\ \A e \in table : e.data = e.fd
    /\ removed \cap Registered(table) = {}
    /\ (last.op = "wait" /\ last.result.status = "list") =>
          LET l == last.result.list
          IN  /\ \A i \in 1..Len(l) :
                    /\ l[i][1] \in Registered(table)
                    /\ l[i][1] \notin removed
                    /\ l[i][2] \subseteq Entry(table, l[i][1]).events \cap cond[l[i][1]]
              /\ \A i \in 1..Len(l) : \A j \in 1..Len(l) : l[i][1] = l[j][1] => i = j

\* a wait returns a batch while a removed descriptor has a condition true
C10_Witness ==
    /\ last.op = "wait" /\ last.result.status = "list" /\ Len(last.result.list) > 0
    /\ \E f \in removed : cond[f] # Closed /\ cond[f] # {}

--------------------------------------------------------------------------
(* Properties of the batch capacity, checked under SpecBatch *)

Returned(f) ==
    /\ last.op = "wait" /\ last.result.status = "list"
    /\ \E i \in 1..Len(last.result.list) : last.result.list[i][1] = f

IsReady(f) == \E e \in table : e.fd = f /\ Revents(cond, f, e.events) # {}

\* C7: a wait returns at most MAX_EVENTS pairs; a descriptor that was ready
\* and left out of a batch stays on the ready list while it is ready and
\* registered, and is returned by a later wait unless it stops being ready
\* or registered.
C7_AtMostCapacity ==
    (last.op = "wait" /\ last.result.status = "list") =>
        Len(last.result.list) <= MAX_EVENTS

C7_StillLinked ==
    \A f \in deferred : IsReady(f) => InList(rdllist, f)

C7_Deferred ==
    /\ [](C7_AtMostCapacity /\ C7_StillLinked)
    /\ \A f \in 1..BatchFds :
          (f \in deferred) ~> (Returned(f) \/ ~IsReady(f))

\* more than MAX_EVENTS descriptors were ready, the wait returned a full
\* batch, and it holds descriptors the previous wait had left out
C7_Witness ==
    /\ last.op = "wait" /\ last.result.status = "list"
    /\ Cardinality(last.ready) > MAX_EVENTS
    /\ Len(last.result.list) = MAX_EVENTS
    /\ served # {}

---------------------------------------------------------------------------
(* Property of the interpreter lock, checked under SpecGil *)

\* C8: while the caller is in the kernel wait it does not hold the
\* interpreter lock, so a free lock can be taken by any other thread, which
\* can then work; the caller holds the lock again when the list or the
\* exception is built.
C8_LockReleasedWhileBlocked ==
    /\ Cardinality(gil) <= 1
    /\ wpc \in {"kernel", "woken"} => Waiter \notin gil
    /\ (wpc = "kernel" /\ gil = NoThread) => \A t \in Others : ENABLED GilTake(t)
    /\ (wpc = "kernel" /\ gil # NoThread) =>
          \A t \in gil : work[t] < MaxWork => ENABLED Work(t)
    /\ wpc = "locked" => gil = {Waiter}
    /\ last.op = "wait" => last.holder = {Waiter}

\* the caller is blocked in the kernel while another thread holds the lock
\* and has worked since the caller released it
C8_Witness ==
    /\ wpc = "kernel"
    /\ \E t \in Others : gil = {t} /\ work[t] > 0

=============================================================================
